---- MODULE Spec2Model ----
(***************************************************************************)
(* Model of the vapor-compression cycle solver simular_refrigerador        *)
(* (prueba.py), of its command-line entry block and of the dashboard       *)
(* script that calls it (app.py).                                          *)
(*                                                                         *)
(* Numbers.  Temperatures are integers in centikelvin (0.01 K), so that    *)
(* the 273.15 offset of the Celsius scale is exact.  Enthalpies,           *)
(* entropies, pressures and the mass flow are integers in their SI unit.   *)
(* A quotient (a conversion to kW, the COP) is kept as the pair            *)
(* <<numerator, denominator>> and compared by cross multiplication.        *)
(*                                                                         *)
(* The property oracle CoolProp.PropsSI is a deterministic function that   *)
(* the solver cannot see into: it is modelled as an arbitrary function     *)
(* fixed lazily, one answer the first time a query is made (memo), and     *)
(* the same answer every time the same query is made again.  An answer is  *)
(* a number or a failure; PropsSI reports a failure by raising ValueError. *)
(***************************************************************************)
EXTENDS Integers, Sequences, FiniteSets, TLC

\* ---- bounds of the model ----
MaxH == 2
MaxFlow == 2

\* ---- program constants ----
Delta_T_cond == 1500
KelvinOffset == 27315
WattsPerKW == 1000

\* (ambient, interior) temperatures in whole degrees Celsius a session uses
TempPairs == {<<25, 4>>, <<-5, 10>>}

\* sample answers of the oracle, per requested property
PVals == {3, 7}
SVals == {1, 2}
TVals == {30000, 33000}
QVals == {20, 35}
HVals == 1..MaxH
Flows == 0..MaxFlow

VARIABLES caller, T_ambiente_C, T_interior_C, Flujo_masico_kg_s,
          pc, env, memo, queries, exc, ret, last, parsed, stdout

vars == <<caller, T_ambiente_C, T_interior_C, Flujo_masico_kg_s,
          pc, env, memo, queries, exc, ret, last, parsed, stdout>>

\* ---- quotients ----
RatEq(a, b) == a[1] * b[2] = b[1] * a[2]
RatDiv(a, b) == <<a[1] * b[2], a[2] * b[1]>>

\* ---- unit conversions ----
CelsiusToKelvin(c) == c * 100 + KelvinOffset
ToKW(w) == <<w, WattsPerKW>>

\* ---- the oracle ----
Key(out, n1, v1, n2, v2) == [out |-> out, n1 |-> n1, v1 |-> v1, n2 |-> n2, v2 |-> v2]
Ok(v) == [ok |-> TRUE, val |-> v]
Failure == [ok |-> FALSE, val |-> 0]
Range(out) ==
    CASE out = "H" -> HVals
      [] out = "P" -> PVals
      [] out = "S" -> SVals
      [] out = "T" -> TVals
      [] out = "Q" -> QVals
Answers(out) == {Ok(v) : v \in Range(out)} \cup {Failure}

\* a is the oracle's answer to query k: a new one the first time, the
\* recorded one afterwards
PropsSI(k, a) ==
    /\ IF k \in DOMAIN memo THEN a = memo[k] ELSE a \in Answers(k.out)
    /\ memo' = IF k \in DOMAIN memo THEN memo ELSE memo @@ (k :> a)
    /\ queries' = Append(queries, k)

NoEnv == [T_ambiente |-> 0, T_interior |-> 0, Flujo_masico |-> 0,
          h1 |-> 0, s1 |-> 0, T_condensacion |-> 0, P_condensacion |-> 0,
          s2 |-> 0, P2 |-> 0, h2 |-> 0, Trabajo_necesario |-> 0,
          P3 |-> 0, h3 |-> 0, T3 |-> 0, h4 |-> 0, P4 |-> 0, x4 |-> 0,
          Q_evap |-> 0, COP |-> <<0, 1>>, Temp_Descarga |-> 0,
          s3 |-> 0, s4r |-> 0, resultados |-> <<>>]
NoResult == <<>>

Init ==
    /\ caller \in {"cli", "app"}
    /\ \E tp \in TempPairs : T_ambiente_C = tp[1] /\ T_interior_C = tp[2]
    /\ Flujo_masico_kg_s = 0
    /\ pc = "start"
    /\ env = NoEnv
    /\ memo = <<>>
    /\ queries = <<>>
    /\ exc = "none"
    /\ ret = NoResult
    /\ last = NoResult
    /\ parsed = FALSE
    /\ stdout = <<>>

\* ---- simular_refrigerador ----
callerVars == <<caller, T_ambiente_C, T_interior_C>>

\* lines 12-14: the arguments as quantities, temperatures in kelvin
Entrada(ta, ti, m) ==
    /\ env' = [NoEnv EXCEPT !.T_ambiente = CelsiusToKelvin(ta),
                            !.T_interior = CelsiusToKelvin(ti),
                            !.Flujo_masico = m]
    /\ Flujo_masico_kg_s' = m
    /\ queries' = <<>>
    /\ exc' = "none"
    /\ ret' = NoResult
    /\ pc' = "h1"

\* an exception leaves the function: the caller receives no value
Raise(e, x) ==
    /\ env' = e
    /\ exc' = x
    /\ ret' = NoResult
    /\ pc' = "raised"

\* variant: a failed lookup is replaced by a default and the body goes on
Consulta_Fallback(at, e, k, field, next) ==
    /\ pc = at
    /\ \E a \in Answers(k.out) :
         /\ PropsSI(k, a)
         /\ env' = [e EXCEPT ![field] = a.val]
         /\ pc' = next
         /\ UNCHANGED <<exc, ret>>
    /\ UNCHANGED <<callerVars, Flujo_masico_kg_s, last, parsed, stdout>>

\* one PropsSI call of the function body: e is the environment when the call
\* is made, k the query, field the local the answer is bound to
Consulta(at, e, k, field, next) ==
    /\ pc = at
    /\ \E a \in Answers(k.out) :
         /\ PropsSI(k, a)
         /\ IF a.ok
              THEN /\ env' = [e EXCEPT ![field] = a.val]
                   /\ pc' = next
                   /\ UNCHANGED <<exc, ret>>
              ELSE Raise(e, "ValueError")
    /\ UNCHANGED <<callerVars, Flujo_masico_kg_s, last, parsed, stdout>>

\* line 21
Estado1_h1 ==
    Consulta("h1", env, Key("H", "T", env.T_interior, "Q", 1), "h1", "s1")

\* line 22
Estado1_s1 ==
    Consulta("s1", env, Key("S", "T", env.T_interior, "Q", 1), "s1", "Pcond")

\* variant: the condensing temperature taken from the interior temperature
CondensingTemperature_Interior(e) == e.T_interior + Delta_T_cond

\* lines 25-26
CondensingTemperature(e) == e.T_ambiente + Delta_T_cond
Estado2_P ==
    LET e == [env EXCEPT !.T_condensacion = CondensingTemperature(env)]
    IN  Consulta("Pcond", e, Key("P", "T", e.T_condensacion, "Q", 0),
                 "P_condensacion", "h2")

\* lines 28-30
Compresion(e) == [e EXCEPT !.s2 = e.s1, !.P2 = e.P_condensacion]
Estado2_h2 ==
    LET e == Compresion(env)
    IN  Consulta("h2", e, Key("H", "P", e.P2, "S", e.s2), "h2", "work")

\* variant: the mass flow left out of the compressor work
Trabajo_SinFlujo(e) == e.h2 - e.h1

\* line 31
Trabajo(e) == e.Flujo_masico * (e.h2 - e.h1)
Estado2_Trabajo ==
    /\ pc = "work"
    /\ env' = [env EXCEPT !.Trabajo_necesario = Trabajo(env)]
    /\ pc' = "h3"
    /\ UNCHANGED <<callerVars, Flujo_masico_kg_s, memo, queries, exc, ret,
                   last, parsed, stdout>>

\* lines 34-35
Estado3_h3 ==
    LET e == [env EXCEPT !.P3 = env.P2]
    IN  Consulta("h3", e, Key("H", "P", e.P3, "Q", 0), "h3", "T3")

\* line 36
Estado3_T3 ==
    Consulta("T3", env, Key("T", "P", env.P3, "Q", 0), "T3", "P4")

\* lines 39-40
Estrangulamiento(e) == [e EXCEPT !.h4 = e.h3]
Estado4_P4 ==
    LET e == Estrangulamiento(env)
    IN  Consulta("P4", e, Key("P", "T", e.T_interior, "Q", 1), "P4", "x4")

\* line 41
Estado4_x4 ==
    Consulta("x4", env, Key("Q", "P", env.P4, "H", env.h4), "x4", "cop")

\* variant: the heat rejected in the condenser instead of the heat extracted
CalorExtraido_Condensador(e) == e.Flujo_masico * (e.h2 - e.h4)

\* variant: 0/0 is let through and only x/0 raises
DivisionRaises_SoloNoNulo(q, w) == w = 0 /\ q # 0

\* variant: a non-positive divisor is rejected as a degenerate cycle
DivisionRaises_NoPositivo(q, w) == w <= 0

\* variant: a zero compressor work is clamped to a COP of 0
CalculosFinales_Clamped ==
    /\ pc = "cop"
    /\ LET e == [env EXCEPT !.Q_evap = env.Flujo_masico * (env.h1 - env.h4)]
       IN  /\ env' = [e EXCEPT !.COP = IF e.Trabajo_necesario = 0
                                         THEN <<0, 1>>
                                         ELSE <<e.Q_evap, e.Trabajo_necesario>>]
           /\ pc' = "Tdesc"
           /\ UNCHANGED <<exc, ret>>
    /\ UNCHANGED <<callerVars, Flujo_masico_kg_s, memo, queries, last, parsed, stdout>>

\* lines 44-47: Python's float division raises ZeroDivisionError on a zero
\* divisor, whatever the dividend
CalorExtraido(e) == e.Flujo_masico * (e.h1 - e.h4)
DivisionRaises(q, w) == w = 0
CalculosFinales ==
    /\ pc = "cop"
    /\ LET e == [env EXCEPT !.Q_evap = CalorExtraido(env)]
       IN  IF DivisionRaises(e.Q_evap, e.Trabajo_necesario)
             THEN Raise(e, "ZeroDivisionError")
             ELSE /\ env' = [e EXCEPT !.COP = <<e.Q_evap, e.Trabajo_necesario>>]
                  /\ pc' = "Tdesc"
                  /\ UNCHANGED <<exc, ret>>
    /\ UNCHANGED <<callerVars, Flujo_masico_kg_s, memo, queries, last, parsed, stdout>>

\* line 57, evaluated while the "scalar" dictionary is built
Resultados_Tdesc ==
    Consulta("Tdesc", env, Key("T", "H", env.h2, "P", env.P2), "Temp_Descarga", "s3")

\* line 63
Resultados_s3 ==
    Consulta("s3", env, Key("S", "P", env.P3, "Q", 0), "s3", "s4")

\* lines 52-59
Escalares(e) ==
    [Trabajo_Compresor_kW |-> ToKW(e.Trabajo_necesario),
     Calor_Extraido_kW |-> ToKW(e.Q_evap),
     COP |-> e.COP,
     Calidad_Evap |-> e.x4,
     Temp_Descarga_C |-> e.Temp_Descarga - KelvinOffset,
     Flujo_Masico_kg_s |-> e.Flujo_masico]

\* variant: state 1 reported at the condensing pressure
Estados_P1Condensador(e) ==
    <<[P |-> e.P2, T |-> e.T_interior, h |-> e.h1, s |-> e.s1,
       desc |-> "Entrada Compresor"],
      [P |-> e.P2, T |-> e.T_ambiente + Delta_T_cond, h |-> e.h2, s |-> e.s2,
       desc |-> "Entrada Condensador"],
      [P |-> e.P3, T |-> e.T3, h |-> e.h3, s |-> e.s3,
       desc |-> "Salida Condensador"],
      [P |-> e.P4, T |-> e.T_interior, h |-> e.h4, s |-> e.s4r,
       desc |-> "Entrada Evaporador"]>>

\* lines 60-65
Estados(e) ==
    <<[P |-> e.P4, T |-> e.T_interior, h |-> e.h1, s |-> e.s1,
       desc |-> "Entrada Compresor"],
      [P |-> e.P2, T |-> e.T_ambiente + Delta_T_cond, h |-> e.h2, s |-> e.s2,
       desc |-> "Entrada Condensador"],
      [P |-> e.P3, T |-> e.T3, h |-> e.h3, s |-> e.s3,
       desc |-> "Salida Condensador"],
      [P |-> e.P4, T |-> e.T_interior, h |-> e.h4, s |-> e.s4r,
       desc |-> "Entrada Evaporador"]>>

\* line 64, the last query of the dictionary: lines 51-66 then bind resultados
Resultados_s4 ==
    /\ pc = "s4"
    /\ LET k == Key("S", "P", env.P4, "H", env.h4)
       IN  \E a \in Answers(k.out) :
             /\ PropsSI(k, a)
             /\ IF a.ok
                  THEN LET e == [env EXCEPT !.s4r = a.val]
                       IN  /\ env' = [e EXCEPT !.resultados =
                                        <<[scalar |-> Escalares(e), states |-> Estados(e)]>>]
                           /\ pc' = "T2real"
                           /\ UNCHANGED <<exc, ret>>
                  ELSE Raise(env, "ValueError")
    /\ UNCHANGED <<callerVars, Flujo_masico_kg_s, last, parsed, stdout>>

\* variant: the assumed temperature of state 2 is kept
SetT2_Omitido(res, t) == res

\* lines 69-72
SetT2(res, t) == [res EXCEPT !.states[2].T = t]
Recalcular_T2 ==
    /\ pc = "T2real"
    /\ LET k == Key("T", "H", env.h2, "P", env.P2)
       IN  \E a \in Answers(k.out) :
             /\ PropsSI(k, a)
             /\ IF a.ok
                  THEN LET r == SetT2(env.resultados[1], a.val)
                       IN  /\ env' = [env EXCEPT !.resultados = <<r>>]
                           /\ ret' = <<r>>
                           /\ pc' = "returned"
                           /\ UNCHANGED exc
                  ELSE Raise(env, "ValueError")
    /\ UNCHANGED <<callerVars, Flujo_masico_kg_s, last, parsed, stdout>>

\* ---- prueba.py, the interactive block (lines 84-99) ----
\* n of the three inputs are read as numbers before float() raises
\* ValueError; with n = 3 the function is called
MainLeerEntradas ==
    /\ caller = "cli"
    /\ pc = "start"
    /\ \E n \in 0..3 :
         IF n = 3
           THEN /\ \E m \in Flows : Entrada(T_ambiente_C, T_interior_C, m)
                /\ parsed' = TRUE
                /\ stdout' = <<"configuracion", "calculando">>
           ELSE /\ parsed' = FALSE
                /\ exc' = "ValueError"
                /\ pc' = "parse_error"
                /\ stdout' = <<"configuracion">>
                /\ UNCHANGED <<env, Flujo_masico_kg_s, queries, ret>>
    /\ UNCHANGED <<callerVars, memo, last>>

\* line 96 and imprimir_resultados (lines 74-80)
MainImprimir ==
    /\ caller = "cli"
    /\ pc = "returned"
    /\ stdout' = Append(stdout, "resultados")
    /\ pc' = "exit"
    /\ UNCHANGED <<callerVars, Flujo_masico_kg_s, env, memo, queries, exc, ret,
                   last, parsed>>

\* lines 98-99: the handler takes every ValueError raised inside the try
Handled(x) == x = "ValueError"
MainExcept ==
    /\ caller = "cli"
    /\ pc \in {"raised", "parse_error"}
    /\ Handled(exc)
    /\ stdout' = Append(stdout, "error_numeros")
    /\ pc' = "exit"
    /\ UNCHANGED <<callerVars, Flujo_masico_kg_s, env, memo, queries, exc, ret,
                   last, parsed>>

\* any other exception leaves the script with a traceback
MainTraceback ==
    /\ caller = "cli"
    /\ pc \in {"raised", "parse_error"}
    /\ ~Handled(exc)
    /\ pc' = "crashed"
    /\ UNCHANGED <<callerVars, Flujo_masico_kg_s, env, memo, queries, exc, ret,
                   last, parsed, stdout>>

\* ---- app.py: the script is run again at every change of a widget ----
\* lines 35-42 and 123-124: the slider gives a positive mass flow
AppCalcular ==
    /\ caller = "app"
    /\ pc \in {"start", "app_done"}
    /\ \E m \in Flows \ {0} : Entrada(T_ambiente_C, T_interior_C, m)
    /\ last' = ret
    /\ stdout' = <<>>
    /\ UNCHANGED <<callerVars, memo, parsed>>

\* lines 125-224
AppMostrar ==
    /\ caller = "app"
    /\ pc = "returned"
    /\ stdout' = Append(stdout, "metricas")
    /\ pc' = "app_done"
    /\ UNCHANGED <<callerVars, Flujo_masico_kg_s, env, memo, queries, exc, ret,
                   last, parsed>>

\* lines 226-228
AppExcept ==
    /\ caller = "app"
    /\ pc = "raised"
    /\ stdout' = Append(stdout, "error_calculo")
    /\ pc' = "app_done"
    /\ UNCHANGED <<callerVars, Flujo_masico_kg_s, env, memo, queries, exc, ret,
                   last, parsed>>

\* ---- properties ----
SeqRange(q) == {q[i] : i \in 1..Len(q)}
NoQueryFailed == \A i \in 1..Len(queries) : memo[queries[i]].ok
CallEnded == pc \in {"raised", "returned", "exit", "crashed", "app_done"}
ScalarNames == {"Trabajo_Compresor_kW", "Calor_Extraido_kW", "COP",
                "Calidad_Evap", "Temp_Descarga_C", "Flujo_Masico_kg_s"}
Complete(r) == DOMAIN r.states = 1..4 /\ DOMAIN r.scalar = ScalarNames

\* C1: every returned result satisfies the four cycle invariants, whatever
\* the oracle answered: P1 = P4, P2 = P3, s2 = s1 and h4 = h3.
C1_CycleInvariants ==
    ret # <<>> =>
        LET st == ret[1].states
        IN  /\ st[1].P = st[4].P
            /\ st[2].P = st[3].P
            /\ st[2].s = st[1].s
            /\ st[4].h = st[3].h
C1_Witness ==
    /\ ret # <<>>
    /\ ret[1].states[1].P # ret[1].states[2].P
    /\ ret[1].states[3].s # ret[1].states[1].s
    /\ ret[1].states[4].s # ret[1].states[1].s
    /\ ret[1].states[1].h # ret[1].states[4].h

\* C2: in every returned result the COP is the returned heat-extraction rate
\* divided by the returned compressor work rate, the work is
\* mass_flow * (h2 - h1) and the heat is mass_flow * (h1 - h4), with the
\* enthalpies reported in states 1, 2 and 4 (rates in kW).
C2_COPIsHeatOverWork ==
    ret # <<>> =>
        LET sc == ret[1].scalar
            st == ret[1].states
        IN  /\ sc.Trabajo_Compresor_kW[1] # 0
            /\ RatEq(sc.COP, RatDiv(sc.Calor_Extraido_kW, sc.Trabajo_Compresor_kW))
            /\ RatEq(sc.Trabajo_Compresor_kW,
                     <<sc.Flujo_Masico_kg_s * (st[2].h - st[1].h), WattsPerKW>>)
            /\ RatEq(sc.Calor_Extraido_kW,
                     <<sc.Flujo_Masico_kg_s * (st[1].h - st[4].h), WattsPerKW>>)
C2_Witness ==
    /\ ret # <<>>
    /\ ret[1].scalar.Flujo_Masico_kg_s = 2
    /\ ret[1].scalar.Calor_Extraido_kW[1] # 0
    /\ ret[1].scalar.Calor_Extraido_kW[1] # ret[1].scalar.Trabajo_Compresor_kW[1]

\* C3: with a mass flow of 0 the work and the heat are both zero and the 0/0
\* is an error of the call: no result (with a COP of 0 or any other number)
\* is ever returned.
C3_ZeroFlowIsAnError ==
    (env.Flujo_masico = 0 /\ pc \notin {"start", "parse_error"} /\ parsed) =>
        /\ ret = <<>>
        /\ pc \notin {"Tdesc", "s3", "s4", "T2real", "returned"}
        /\ (Len(queries) >= 8 /\ NoQueryFailed /\ pc # "cop") =>
              /\ exc = "ZeroDivisionError"
              /\ env.Trabajo_necesario = 0
              /\ env.Q_evap = 0
C3_Witness ==
    /\ pc = "raised"
    /\ exc = "ZeroDivisionError"
    /\ parsed
    /\ env.Flujo_masico = 0
    /\ env.h2 # env.h1
    /\ env.h1 # env.h4

\* C4: when the oracle gives h2 = h1 and the mass flow is not zero, the
\* compressor work is zero and no finite COP is returned: the call fails
\* (or the COP is infinite).
C4_DegenerateLiftNotMasked ==
    (env.Flujo_masico # 0 /\ env.h2 # 0 /\ env.h2 = env.h1) =>
        /\ env.Trabajo_necesario = 0
        /\ ret # <<>> => ret[1].scalar.COP[2] = 0
        /\ (CallEnded /\ NoQueryFailed) =>
              (ret = <<>> /\ exc = "ZeroDivisionError")
C4_Witness ==
    /\ pc = "raised"
    /\ exc = "ZeroDivisionError"
    /\ env.Flujo_masico # 0
    /\ env.h2 = env.h1
    /\ env.Q_evap # 0
    /\ env.T_interior = env.T_condensacion

\* C5: a failed oracle query fails the whole call: it is the last query the
\* call issues (no retry, no later query), the call ends with the oracle's
\* error and the caller receives nothing; a result that is returned has all
\* four states and all six scalars.
C5_FailureIsWhole ==
    /\ \A i \in 1..Len(queries) :
          ~memo[queries[i]].ok =>
              /\ i = Len(queries)
              /\ \A j \in 1..(i - 1) : queries[j] # queries[i]
              /\ pc \in {"raised", "exit", "app_done"}
              /\ exc = "ValueError"
              /\ ret = <<>>
    /\ ret # <<>> => (Complete(ret[1]) /\ NoQueryFailed /\ Len(queries) = 12)
C5_Witness ==
    /\ pc = "raised"
    /\ exc = "ValueError"
    /\ Len(queries) >= 9
    /\ ~memo[queries[Len(queries)]].ok
    /\ ret = <<>>

\* C6: in every returned result the temperature of state 2 is the oracle's
\* temperature at (enthalpy h2, pressure P2), and minus 273.15 it is the
\* reported discharge temperature.
C6_State2TemperatureFromOracle ==
    ret # <<>> =>
        LET st == ret[1].states
            k == Key("T", "H", st[2].h, "P", st[2].P)
        IN  /\ k \in DOMAIN memo
            /\ memo[k].ok
            /\ st[2].T = memo[k].val
            /\ st[2].T - KelvinOffset = ret[1].scalar.Temp_Descarga_C
C6_Witness ==
    /\ ret # <<>>
    /\ ret[1].states[2].T # CelsiusToKelvin(T_ambiente_C) + Delta_T_cond
    /\ ret[1].states[2].T # ret[1].states[3].T

\* C7: of two successive successful solves at the same temperatures with
\* mass flows m and 2m, the second has twice the compressor work rate and
\* twice the heat-extraction rate, and the same four states, evaporator
\* quality and discharge temperature.
C7_LinearInMassFlow ==
    (last # <<>> /\ ret # <<>>
       /\ ret[1].scalar.Flujo_Masico_kg_s = 2 * last[1].scalar.Flujo_Masico_kg_s) =>
        LET a == last[1].scalar
            b == ret[1].scalar
        IN  /\ RatEq(b.Trabajo_Compresor_kW,
                     <<2 * a.Trabajo_Compresor_kW[1], a.Trabajo_Compresor_kW[2]>>)
            /\ RatEq(b.Calor_Extraido_kW,
                     <<2 * a.Calor_Extraido_kW[1], a.Calor_Extraido_kW[2]>>)
            /\ ret[1].states = last[1].states
            /\ b.Calidad_Evap = a.Calidad_Evap
            /\ b.Temp_Descarga_C = a.Temp_Descarga_C
C7_Witness ==
    /\ last # <<>>
    /\ ret # <<>>
    /\ last[1].scalar.Flujo_Masico_kg_s = 1
    /\ ret[1].scalar.Flujo_Masico_kg_s = 2
    /\ last[1].scalar.Calor_Extraido_kW[1] # 0
    /\ caller = "app"

\* C8 as stated: a call in which no oracle query fails and the compressor
\* work rate is zero or negative completes and returns the computed COP with
\* all states and metrics.
C8_Original ==
    (CallEnded /\ Len(queries) >= 8 /\ NoQueryFailed
       /\ env.Trabajo_necesario <= 0) =>
        /\ ret # <<>>
        /\ Complete(ret[1])
        /\ ret[1].scalar.COP = <<env.Q_evap, env.Trabajo_necesario>>

\* C8 amended: a call in which no oracle query fails and the compressor work
\* rate is negative completes and returns the computed COP = heat / work with
\* all states and metrics; when the work rate is exactly zero the division
\* raises ZeroDivisionError and nothing is returned.
C8_NegativeWorkReturned ==
    (CallEnded /\ Len(queries) >= 8 /\ NoQueryFailed) =>
        /\ env.Trabajo_necesario < 0 =>
              /\ ret # <<>>
              /\ Complete(ret[1])
              /\ ret[1].scalar.COP = <<env.Q_evap, env.Trabajo_necesario>>
              /\ ret[1].scalar.Trabajo_Compresor_kW = ToKW(env.Trabajo_necesario)
        /\ env.Trabajo_necesario = 0 =>
              (ret = <<>> /\ exc = "ZeroDivisionError")
C8_Witness ==
    /\ ret # <<>>
    /\ env.Trabajo_necesario < 0
    /\ ret[1].scalar.COP[1] > 0
    /\ ret[1].scalar.COP[2] < 0

\* C9: in every returned result the pressure of states 2 and 3 is the
\* oracle's pressure at (ambient temperature in kelvin + 15 K, quality 0),
\* and the enthalpy and temperature of state 3 are the oracle's at (that
\* pressure, quality 0): functions of the ambient temperature alone.
C9_CondenserSideFromAmbient ==
    ret # <<>> =>
        LET st == ret[1].states
            kP == Key("P", "T", CelsiusToKelvin(T_ambiente_C) + Delta_T_cond, "Q", 0)
        IN  /\ kP \in DOMAIN memo
            /\ memo[kP].ok
            /\ st[2].P = memo[kP].val
            /\ st[3].P = memo[kP].val
            /\ LET kH == Key("H", "P", memo[kP].val, "Q", 0)
                   kT == Key("T", "P", memo[kP].val, "Q", 0)
               IN  /\ kH \in DOMAIN memo
                   /\ kT \in DOMAIN memo
                   /\ st[3].h = memo[kH].val
                   /\ st[3].T = memo[kT].val
C9_Witness ==
    /\ ret # <<>>
    /\ ret[1].states[2].P # ret[1].states[1].P
    /\ ret[1].states[3].h # ret[1].states[1].h
    /\ T_interior_C # T_ambiente_C
    /\ ret[1].scalar.Flujo_Masico_kg_s = 2

\* C10: the command-line block prints result lines only when the three
\* inputs were read as numbers and the solver returned a result, and prints
\* the 'enter only numbers' message only when reading an input failed.
C10_MessagesMatchCause ==
    caller = "cli" =>
        /\ "resultados" \in SeqRange(stdout) => (parsed /\ ret # <<>>)
        /\ "error_numeros" \in SeqRange(stdout) => ~parsed

Next ==
    \/ MainLeerEntradas
    \/ AppCalcular
    \/ Estado1_h1
    \/ Estado1_s1
    \/ Estado2_P
    \/ Estado2_h2
    \/ Estado2_Trabajo
    \/ Estado3_h3
    \/ Estado3_T3
    \/ Estado4_P4
    \/ Estado4_x4
    \/ CalculosFinales
    \/ Resultados_Tdesc
    \/ Resultados_s3
    \/ Resultados_s4
    \/ Recalcular_T2
    \/ MainImprimir
    \/ MainExcept
    \/ MainTraceback
    \/ AppMostrar
    \/ AppExcept

Spec == Init /\ [][Next]_vars
====
